---- MODULE Spec2Model ----
(***************************************************************************)
(* A model of the parser-combinator engine of roder (src/src/parse.rs,     *)
(* src/src/token.rs) and of its illustrative grammar (src/src/grammar.rs). *)
(*                                                                         *)
(* Offsets are the 0-based usize offsets of the source; token sequences    *)
(* are TLA+ sequences, so the token at offset i is tokens[i + 1].          *)
(*                                                                         *)
(* A call that does not return is represented by a Parse-shaped record     *)
(* whose data.kind is "Panic" (the thread unwound: an index out of bounds, *)
(* an unwrap of None, an arithmetic overflow in a build with overflow      *)
(* checks) or "Hang" (a Repeatable loop that never exits).                 *)
(***************************************************************************)
EXTENDS Integers, Sequences, FiniteSets, TLC

\* ------------------------------------------------------------------ bounds
MaxLen == 2

\* ------------------------------------------------------------------ token.rs
Span_new(ln, cs, ce) == [ln |-> ln, cs |-> cs, ce |-> ce]

Span_default == Span_new(1, 1, 1)

Token_new(ty, span) == [ty |-> ty, span |-> span]

\* ------------------------------------------------------------------ grammar.rs
\* TokenType: the variants the illustrative grammar mentions; Id and Str
\* carry a string.
TokId(s) == [v |-> "Id", s |-> s]

TokStr(s) == [v |-> "Str", s |-> s]

TokEquals == [v |-> "Equals"]

TokEoi == [v |-> "Eoi"]

TokenType == {TokId("a"), TokEquals, TokStr("x"), TokEoi}

\* The two closures of create_grammar_token_parser, and their application
\* (self.predicate)(token.ty()).
ApplyPredicate(name, ty) ==
    CASE name = "is_id" -> ty.v = "Id"
      [] name = "is_str" -> ty.v = "Str"

\* ------------------------------------------------------------------ parse.rs: data
ParseError_new(expected, span, message) ==
    [expected |-> expected, span |-> span, message |-> message]

ParseError_from(expected, span) == ParseError_new(expected, span, "Syntax error")

DataToken(t) == [tag |-> "Token", token |-> t]

DataNested(l) == [tag |-> "Nested", list |-> l]

ResultOk(d) == [kind |-> "Ok", data |-> d]

ResultErr(e) == [kind |-> "Err", err |-> e]

ResultNone == [kind |-> "None"]

Parse_new(type_parsed, data, start_offset, end_offset) ==
    [type_parsed |-> type_parsed, data |-> data,
     start_offset |-> start_offset, end_offset |-> end_offset]

size(p) == p.end_offset - p.start_offset

\* The outcome of a call that does not return.
NoReturn(how) == Parse_new("", [kind |-> how], 0, 0)

Returned(p) == p.data.kind \in {"Ok", "Err", "None"}

\* ------------------------------------------------------------------ parse.rs: Context
\* ctx = [tokens, overflow_checks]; overflow_checks is the build setting that
\* decides what `self.tokens.len() - 1` does on an empty slice.
Context_new(toks, checks) == [tokens |-> toks, overflow_checks |-> checks]

\* Option<&Token>: [some |-> TRUE, token |-> t] or [some |-> FALSE].
get(ctx, index) ==
    IF index >= 0 /\ index < Len(ctx.tokens)
    THEN [some |-> TRUE, token |-> ctx.tokens[index + 1]]
    ELSE [some |-> FALSE]

\* A variant of span_last that reads the first token instead of the last.
span_last_first(ctx) ==
    IF Len(ctx.tokens) = 0
    THEN IF ctx.overflow_checks
         THEN [panic |-> TRUE]
         ELSE [panic |-> FALSE, span |-> Span_default]
    ELSE [panic |-> FALSE, span |-> get(ctx, 0).token.span]

\* [panic |-> TRUE] or [panic |-> FALSE, span |-> s]. On an empty slice
\* len() - 1 panics with overflow checks; without them it wraps to
\* usize::MAX, get gives None and unwrap_or_default the default span.
span_last(ctx) ==
    IF Len(ctx.tokens) = 0
    THEN IF ctx.overflow_checks
         THEN [panic |-> TRUE]
         ELSE [panic |-> FALSE, span |-> Span_default]
    ELSE [panic |-> FALSE, span |-> get(ctx, Len(ctx.tokens) - 1).token.span]

\* Result<&Token, ParseResult>: [ok |-> TRUE, token |-> t] or
\* [ok |-> FALSE, e |-> ParseResult]; e.kind = "Panic" when the closure's
\* span_last panics.
get_required(ctx, pty, index, optional) ==
    LET g == get(ctx, index) IN
    IF g.some THEN [ok |-> TRUE, token |-> g.token]
    ELSE IF optional THEN [ok |-> FALSE, e |-> ResultNone]
    ELSE LET sl == span_last(ctx) IN
         IF sl.panic THEN [ok |-> FALSE, e |-> [kind |-> "Panic"]]
         ELSE [ok |-> FALSE,
               e |-> ResultErr(ParseError_new(pty, sl.span, "Unexpected end of input"))]

\* ------------------------------------------------------------------ parse.rs: combinators
\* A combinator is a record [kind, pty, optional, ...]: ty for OfType,
\* predicate for Predicate, inner (a sequence of combinators) for Sequence
\* and Choice, inner (one combinator) for Repeatable and Not.
OfType_from(pty, optional, ty) ==
    [kind |-> "OfType", pty |-> pty, optional |-> optional, ty |-> ty]

Predicate_from(pty, optional, predicate) ==
    [kind |-> "Predicate", pty |-> pty, optional |-> optional, predicate |-> predicate]

Sequence_from(pty, optional, sequence) ==
    [kind |-> "Sequence", pty |-> pty, optional |-> optional, inner |-> sequence]

Repeatable_from(pty, optional, repeatable) ==
    [kind |-> "Repeatable", pty |-> pty, optional |-> optional, inner |-> repeatable]

Not_new(pty, optional, inner) ==
    [kind |-> "Not", pty |-> pty, optional |-> optional, inner |-> inner]

Choice_from(pty, optional, inner) ==
    [kind |-> "Choice", pty |-> pty, optional |-> optional, inner |-> inner]

OfType_parse(self, ctx, offset) ==
    LET r == get_required(ctx, self.pty, offset, self.optional) IN
    IF ~r.ok
    THEN IF r.e.kind = "Panic" THEN NoReturn("Panic")
         ELSE Parse_new(self.pty, r.e, offset, offset)
    ELSE IF self.ty = r.token.ty
         THEN Parse_new(self.pty, ResultOk(DataToken(r.token)), offset, offset)
         ELSE Parse_new(self.pty,
                        ResultErr(ParseError_from(self.pty, r.token.span)),
                        offset, offset)

Predicate_parse(self, ctx, offset) ==
    LET r == get_required(ctx, self.pty, offset, self.optional) IN
    IF ~r.ok
    THEN IF r.e.kind = "Panic" THEN NoReturn("Panic")
         ELSE Parse_new(self.pty, r.e, offset, offset)
    ELSE IF ApplyPredicate(self.predicate, r.token.ty)
         THEN Parse_new(self.pty, ResultOk(DataToken(r.token)), offset, offset)
         ELSE Parse_new(self.pty,
                        ResultErr(ParseError_from(self.pty, r.token.span)),
                        offset, offset + 1)

\* The locals of a running Sequence, Repeatable or Choice call: the cursor
\* offs, the collected expr, the remembered err ([some |-> FALSE] for None),
\* the index idx of the next child, and out, the value returned once
\* returned is TRUE.
Locals(offset) ==
    [offs |-> offset, expr |-> <<>>, err |-> [some |-> FALSE], idx |-> 0,
     returned |-> FALSE, out |-> NoReturn("Running")]

Return(st, p) == [st EXCEPT !.returned = TRUE, !.out = p]

\* A variant of SequenceBody that advances the cursor by the size() of every
\* child that did not fail, a None child included.
SequenceBody_AdvanceOnNone(self, offset, st, parse) ==
    CASE ~Returned(parse) -> Return(st, parse)
      [] parse.data.kind = "Ok" ->
            [st EXCEPT !.offs = st.offs + size(parse),
                       !.expr = Append(st.expr, parse.data.data),
                       !.idx = st.idx + 1]
      [] parse.data.kind = "Err" ->
            IF self.optional
            THEN Return(st, Parse_new(self.pty, ResultNone, offset, st.offs))
            ELSE Return(st, Parse_new(self.pty, ResultErr(parse.data.err), offset, st.offs))
      [] parse.data.kind = "None" ->
            [st EXCEPT !.offs = st.offs + size(parse), !.idx = st.idx + 1]

\* Sequence::parse, the body of `for item in &self.inner` given the Parse
\* the item returned.
SequenceBody(self, offset, st, parse) ==
    CASE ~Returned(parse) -> Return(st, parse)
      [] parse.data.kind = "Ok" ->
            [st EXCEPT !.offs = st.offs + size(parse),
                       !.expr = Append(st.expr, parse.data.data),
                       !.idx = st.idx + 1]
      [] parse.data.kind = "Err" ->
            IF self.optional
            THEN Return(st, Parse_new(self.pty, ResultNone, offset, st.offs))
            ELSE Return(st, Parse_new(self.pty, ResultErr(parse.data.err), offset, st.offs))
      [] parse.data.kind = "None" -> [st EXCEPT !.idx = st.idx + 1]

\* Sequence::parse after the loop.
SequenceExit(self, offset, st) ==
    Return(st, Parse_new(self.pty, ResultOk(DataNested(st.expr)), offset, st.offs))

\* The cursor advance of Repeatable::parse for an Ok child: the number of
\* elements of the data, not the child's size().
Advance(data) ==
    CASE data.tag = "Nested" -> Len(data.list)
      [] data.tag = "TokenList" -> Len(data.list)
      [] data.tag = "Token" -> 1

\* Repeatable::parse, the body of `loop` given the Parse the child returned;
\* idx counts the iterations, and breaking out of the loop is idx = -1.
RepeatableBody(self, offset, st, parse) ==
    CASE ~Returned(parse) -> Return(st, parse)
      [] parse.data.kind = "Ok" ->
            [st EXCEPT !.offs = st.offs + Advance(parse.data.data),
                       !.expr = Append(st.expr, parse.data.data),
                       !.idx = st.idx + 1]
      [] parse.data.kind = "Err" ->
            [st EXCEPT !.err = [some |-> TRUE, err |-> parse.data.err], !.idx = -1]
      [] parse.data.kind = "None" -> [st EXCEPT !.idx = -1]

\* Repeatable::parse after the loop. ctx.tokens[offs] panics when offs is
\* out of bounds.
RepeatableExit(self, ctx, offset, st) ==
    IF st.expr = <<>>
    THEN IF self.optional
         THEN Return(st, Parse_new(self.pty, ResultNone, offset, st.offs))
         ELSE IF st.err.some
         THEN Return(st, Parse_new(self.pty, ResultErr(st.err.err), offset, st.offs))
         ELSE IF st.offs < Len(ctx.tokens)
         THEN Return(st, Parse_new(self.pty,
                         ResultErr(ParseError_from(self.pty, ctx.tokens[st.offs + 1].span)),
                         offset, st.offs))
         ELSE Return(st, NoReturn("Panic"))
    ELSE Return(st, Parse_new(self.pty, ResultOk(DataNested(st.expr)), offset, st.offs))

\* Not::parse::get_data_span: [panic |-> TRUE] when first().unwrap() meets
\* an empty list.
RECURSIVE get_data_span(_)
get_data_span(data) ==
    CASE data.tag = "Token" -> [panic |-> FALSE, span |-> data.token.span]
      [] data.tag = "TokenList" ->
            IF data.list = <<>> THEN [panic |-> TRUE]
            ELSE [panic |-> FALSE, span |-> Head(data.list).span]
      [] data.tag = "Nested" ->
            IF data.list = <<>> THEN [panic |-> TRUE]
            ELSE get_data_span(Head(data.list))

\* Not::parse given the Parse the child returned.
NotBody(self, parse) ==
    CASE ~Returned(parse) -> parse
      [] parse.data.kind = "Ok" ->
            IF self.optional
            THEN Parse_new(self.pty, ResultNone, parse.start_offset, parse.end_offset)
            ELSE LET sp == get_data_span(parse.data.data) IN
                 IF sp.panic THEN NoReturn("Panic")
                 ELSE Parse_new(self.pty, ResultErr(ParseError_from(self.pty, sp.span)),
                                parse.start_offset, parse.end_offset)
      [] parse.data.kind \in {"Err", "None"} ->
            Parse_new(self.pty, ResultNone, parse.start_offset, parse.end_offset)

\* A variant of ChoiceBody that returns the alternative's data under the
\* Choice's own label.
ChoiceBody_Relabel(self, offset, st, parse) ==
    CASE ~Returned(parse) -> Return(st, parse)
      [] parse.data.kind = "Ok" ->
            Return(st, Parse_new(self.pty, parse.data, parse.start_offset, parse.end_offset))
      [] OTHER -> [st EXCEPT !.idx = st.idx + 1]

\* Choice::parse, the body of `for choice in &self.inner` given the Parse
\* the alternative returned.
ChoiceBody(self, offset, st, parse) ==
    CASE ~Returned(parse) -> Return(st, parse)
      [] parse.data.kind = "Ok" -> Return(st, parse)
      [] OTHER -> [st EXCEPT !.idx = st.idx + 1]

\* Choice::parse after the loop.
ChoiceExit(self, ctx, offset, st) ==
    LET sl == span_last(ctx) IN
    IF sl.panic THEN Return(st, NoReturn("Panic"))
    ELSE Return(st, Parse_new(self.pty, ResultErr(ParseError_from(self.pty, sl.span)),
                              offset, offset))

\* A Repeatable loop that has made more Ok iterations than the input has
\* tokens never exits: an Ok iteration that leaves the cursor in place
\* repeats itself, and a child that returns Ok at or past the end of the
\* input returns Ok at every later offset too.
Spinning(ctx, st) == st.idx > Len(ctx.tokens)

RECURSIVE Parser_parse(_, _, _)
RECURSIVE SequenceLoop(_, _, _, _)
RECURSIVE RepeatableLoop(_, _, _, _)
RECURSIVE ChoiceLoop(_, _, _, _)

SequenceLoop(self, ctx, offset, st) ==
    IF st.returned THEN st.out
    ELSE IF st.idx = Len(self.inner)
    THEN SequenceLoop(self, ctx, offset, SequenceExit(self, offset, st))
    ELSE SequenceLoop(self, ctx, offset,
            SequenceBody(self, offset, st, Parser_parse(self.inner[st.idx + 1], ctx, st.offs)))

RepeatableLoop(self, ctx, offset, st) ==
    IF st.returned THEN st.out
    ELSE IF st.idx = -1
    THEN RepeatableLoop(self, ctx, offset, RepeatableExit(self, ctx, offset, st))
    ELSE IF Spinning(ctx, st) THEN NoReturn("Hang")
    ELSE RepeatableLoop(self, ctx, offset,
            RepeatableBody(self, offset, st, Parser_parse(self.inner, ctx, st.offs)))

ChoiceLoop(self, ctx, offset, st) ==
    IF st.returned THEN st.out
    ELSE IF st.idx = Len(self.inner)
    THEN ChoiceLoop(self, ctx, offset, ChoiceExit(self, ctx, offset, st))
    ELSE ChoiceLoop(self, ctx, offset,
            ChoiceBody(self, offset, st, Parser_parse(self.inner[st.idx + 1], ctx, offset)))

Sequence_parse(self, ctx, offset) == SequenceLoop(self, ctx, offset, Locals(offset))

Repeatable_parse(self, ctx, offset) == RepeatableLoop(self, ctx, offset, Locals(offset))

Not_parse(self, ctx, offset) == NotBody(self, Parser_parse(self.inner, ctx, offset))

Choice_parse(self, ctx, offset) == ChoiceLoop(self, ctx, offset, Locals(offset))

\* Parser::parse, dispatched on the combinator's type.
Parser_parse(self, ctx, offset) ==
    CASE self.kind = "OfType" -> OfType_parse(self, ctx, offset)
      [] self.kind = "Predicate" -> Predicate_parse(self, ctx, offset)
      [] self.kind = "Sequence" -> Sequence_parse(self, ctx, offset)
      [] self.kind = "Repeatable" -> Repeatable_parse(self, ctx, offset)
      [] self.kind = "Not" -> Not_parse(self, ctx, offset)
      [] self.kind = "Choice" -> Choice_parse(self, ctx, offset)

\* grammar.rs: create_grammar_token_parser.
create_grammar_token_parser ==
    LET item == Sequence_from("item", FALSE,
                    << Predicate_from("id", FALSE, "is_id"),
                       OfType_from("=", FALSE, TokEquals),
                       Predicate_from("value", FALSE, "is_str") >>)
    IN Choice_from("document", FALSE,
          << OfType_from("_", FALSE, TokEoi),
             Sequence_from("items", FALSE,
                << Repeatable_from("fields", TRUE, item),
                   OfType_from("_", FALSE, TokEoi) >>) >>)

\* ------------------------------------------------------------------ inputs
\* The token at position i of a lexed line: each position has its own span,
\* none of them the default span.
Lex(tys) == [i \in 1..Len(tys) |-> Token_new(tys[i], Span_new(1, 2 * i, 2 * i + 1))]

Scenario1 == Lex(<<TokId("a"), TokEquals, TokStr("x"), TokEoi>>)

Scenario2 == Lex(<<TokEoi>>)

Scenario3 == Lex(<<TokId("a"), TokEquals, TokEoi>>)

TokenSeqs ==
    {Lex(s) : s \in UNION {[1..n -> TokenType] : n \in 0..MaxLen}}
        \cup {Scenario1, Scenario2, Scenario3}

L_id == Predicate_from("id", FALSE, "is_id")

L_str == Predicate_from("value", FALSE, "is_str")

L_eq == OfType_from("=", FALSE, TokEquals)

L_eoi == OfType_from("_", FALSE, TokEoi)

L_eq_opt == OfType_from("=?", TRUE, TokEquals)

L_id_opt == Predicate_from("id?", TRUE, "is_id")

Leaves == {L_id, L_str, L_eq, L_eoi, L_eq_opt, L_id_opt}

SomeLeaves == {L_id, L_eq, L_eq_opt}

Lists(S) == {<<>>} \cup {<<a>> : a \in S} \cup {<<a, b>> : a \in S, b \in S}

\* Combinators over leaves.
Mid ==
    { Sequence_from("pair", FALSE, <<L_id, L_eq>>),
      Sequence_from("pair?", TRUE, <<L_id, L_eq>>),
      Sequence_from("opts", FALSE, <<L_eq_opt>>),
      Sequence_from("empty", FALSE, <<>>),
      Sequence_from("item", FALSE, <<L_id, L_eq, L_str>>),
      Sequence_from("head?", TRUE, <<Repeatable_from("ids", FALSE, L_id), L_eq>>),
      Not_new("not-eq", FALSE, L_eq),
      Repeatable_from("ids", FALSE, L_id),
      Repeatable_from("ids?", TRUE, L_id),
      Choice_from("alt", FALSE, <<L_eq, L_id>>) }

Depth1 ==
    {Sequence_from("seq", o, l) : o \in BOOLEAN, l \in Lists(SomeLeaves \cup {L_str})}
        \cup {Not_new("not", o, c) : o \in BOOLEAN, c \in Leaves}
        \cup {Repeatable_from("rep", o, c) : o \in BOOLEAN, c \in Leaves}
        \cup {Choice_from("choice", o, l) : o \in BOOLEAN, l \in Lists(SomeLeaves)}

\* Combinators over combinators.
Depth2 ==
    {Sequence_from("seq", o, <<m, c>>) : o \in BOOLEAN, m \in Mid, c \in {L_eq, L_str, L_eq_opt}}
        \cup {Sequence_from("seq", FALSE, <<m>>) : m \in Mid}
        \cup {Not_new("not", o, m) : o \in BOOLEAN, m \in Mid}
        \cup {Repeatable_from("rep", o, m) : o \in BOOLEAN, m \in Mid}
        \cup {Choice_from("choice", FALSE, <<c, m>>) : c \in {L_eq, L_id}, m \in Mid}
        \cup {Choice_from("choice", FALSE, <<m, c>>) : c \in {L_eq, L_id}, m \in Mid}

Depth3 ==
    { create_grammar_token_parser,
      Sequence_from("outer", FALSE,
          << Sequence_from("head?", TRUE, <<Repeatable_from("ids", FALSE, L_id), L_eq>>),
             Repeatable_from("ids", FALSE, L_id) >>),
      Sequence_from("guarded", FALSE, <<Not_new("not-id", FALSE, L_id), L_eq>>),
      Repeatable_from("rep", FALSE,
          Sequence_from("wrap", FALSE, <<Sequence_from("empty", FALSE, <<>>)>>)),
      Not_new("not", FALSE,
          Sequence_from("wrap", FALSE, <<Repeatable_from("ids?", TRUE, L_id)>>)) }

Parsers == Leaves \cup Mid \cup Depth1 \cup Depth2 \cup Depth3

\* ------------------------------------------------------------------ the state machine
\* One top-level call parser.parse(&Context::new(&tokens), offset). The
\* top-level combinator runs one child call per step, each child call
\* evaluated whole; calls lists the Parses the children returned so far.
VARIABLES tokens, overflow_checks, parser, offset, pc, st, calls, result

vars == <<tokens, overflow_checks, parser, offset, pc, st, calls, result>>

ctx == Context_new(tokens, overflow_checks)

Init ==
    /\ tokens \in TokenSeqs
    /\ overflow_checks \in BOOLEAN
    /\ parser \in Parsers
    /\ offset \in 0..Len(tokens)
    /\ pc = "call"
    /\ st = Locals(offset)
    /\ calls = <<>>
    /\ result = NoReturn("Running")

\* Where the call ends up once its outcome is out.
Outcome(out) ==
    CASE Returned(out) -> "done"
      [] out.data.kind = "Panic" -> "panicked"
      [] out.data.kind = "Hang" -> "hung"

Inputs == <<tokens, overflow_checks, parser, offset>>

\* OfType::parse and Predicate::parse.
LeafParse ==
    /\ pc = "call"
    /\ parser.kind \in {"OfType", "Predicate"}
    /\ result' = Parser_parse(parser, ctx, offset)
    /\ pc' = Outcome(result')
    /\ UNCHANGED <<Inputs, st, calls>>

\* Not::parse.
NotParse ==
    /\ pc = "call"
    /\ parser.kind = "Not"
    /\ LET parse == Parser_parse(parser.inner, ctx, offset) IN
        /\ calls' = <<parse>>
        /\ result' = NotBody(parser, parse)
    /\ pc' = Outcome(result')
    /\ UNCHANGED <<Inputs, st>>

\* One iteration of the loop of Sequence::parse.
SequenceStep ==
    /\ pc = "call"
    /\ parser.kind = "Sequence"
    /\ ~st.returned
    /\ st.idx < Len(parser.inner)
    /\ LET parse == Parser_parse(parser.inner[st.idx + 1], ctx, st.offs) IN
        /\ calls' = Append(calls, parse)
        /\ st' = SequenceBody(parser, offset, st, parse)
    /\ UNCHANGED <<Inputs, pc, result>>

SequenceDone ==
    /\ pc = "call"
    /\ parser.kind = "Sequence"
    /\ ~st.returned
    /\ st.idx = Len(parser.inner)
    /\ st' = SequenceExit(parser, offset, st)
    /\ UNCHANGED <<Inputs, pc, calls, result>>

\* One iteration of the loop of Repeatable::parse.
RepeatableStep ==
    /\ pc = "call"
    /\ parser.kind = "Repeatable"
    /\ ~st.returned
    /\ st.idx # -1
    /\ ~Spinning(ctx, st)
    /\ LET parse == Parser_parse(parser.inner, ctx, st.offs) IN
        /\ calls' = Append(calls, parse)
        /\ st' = RepeatableBody(parser, offset, st, parse)
    /\ UNCHANGED <<Inputs, pc, result>>

RepeatableDone ==
    /\ pc = "call"
    /\ parser.kind = "Repeatable"
    /\ ~st.returned
    /\ st.idx = -1
    /\ st' = RepeatableExit(parser, ctx, offset, st)
    /\ UNCHANGED <<Inputs, pc, calls, result>>

\* One iteration of the loop of Choice::parse.
ChoiceStep ==
    /\ pc = "call"
    /\ parser.kind = "Choice"
    /\ ~st.returned
    /\ st.idx < Len(parser.inner)
    /\ LET parse == Parser_parse(parser.inner[st.idx + 1], ctx, offset) IN
        /\ calls' = Append(calls, parse)
        /\ st' = ChoiceBody(parser, offset, st, parse)
    /\ UNCHANGED <<Inputs, pc, result>>

ChoiceDone ==
    /\ pc = "call"
    /\ parser.kind = "Choice"
    /\ ~st.returned
    /\ st.idx = Len(parser.inner)
    /\ st' = ChoiceExit(parser, ctx, offset, st)
    /\ UNCHANGED <<Inputs, pc, calls, result>>

\* The return (or the unwinding) of a Sequence, Repeatable or Choice call.
ReturnParse ==
    /\ pc = "call"
    /\ st.returned
    /\ result' = st.out
    /\ pc' = Outcome(result')
    /\ UNCHANGED <<Inputs, st, calls>>

Next ==
    \/ LeafParse
    \/ NotParse
    \/ SequenceStep
    \/ SequenceDone
    \/ RepeatableStep
    \/ RepeatableDone
    \/ ChoiceStep
    \/ ChoiceDone
    \/ ReturnParse

Spec == Init /\ [][Next]_vars

\* The top-level call, evaluated whole, agrees with the stepwise run.
StepwiseAgrees == pc \in {"done", "panicked", "hung"} => result = Parser_parse(parser, ctx, offset)

\* ------------------------------------------------------------------ properties
Finished == pc \in {"done", "panicked", "hung"}

Kinds(ps) == [i \in 1..Len(ps) |-> ps[i].data.kind]

\* The data of the Parses of ps that are Ok, in order.
RECURSIVE OkData(_)
OkData(ps) ==
    IF ps = <<>> THEN <<>>
    ELSE IF Head(ps).data.kind = "Ok"
         THEN <<Head(ps).data.data>> \o OkData(Tail(ps))
         ELSE OkData(Tail(ps))

\* The sum of size() over the Parses of ps whose kind is in ks.
RECURSIVE SumSize(_, _)
SumSize(ps, ks) ==
    IF ps = <<>> THEN 0
    ELSE (IF Head(ps).data.kind \in ks THEN size(Head(ps)) ELSE 0) + SumSize(Tail(ps), ks)

\* The tokens of a ParseData, left to right.
RECURSIVE Flatten(_)
RECURSIVE FlattenAll(_)
Flatten(data) ==
    CASE data.tag = "Token" -> <<data.token>>
      [] data.tag = "TokenList" -> data.list
      [] data.tag = "Nested" -> FlattenAll(data.list)

FlattenAll(l) == IF l = <<>> THEN <<>> ELSE Flatten(Head(l)) \o FlattenAll(Tail(l))

\* C1: OfType at an offset where a token exists returns Ok(Token) with
\* size() = 1 when the token's type equals the target, and Err with
\* size() = 0 when it differs.
C1_OfTypeConsumesOne ==
    (pc = "done" /\ parser.kind = "OfType" /\ offset < Len(tokens)) =>
        IF tokens[offset + 1].ty = parser.ty
        THEN /\ result.data = ResultOk(DataToken(tokens[offset + 1]))
             /\ size(result) = 1
             /\ result.end_offset - result.start_offset = 1
        ELSE /\ result.data.kind = "Err"
             /\ size(result) = 0

\* C2: the illustrative grammar parses [Id, Equals, Str, Eoi] from offset 0
\* to Ok: one Nested item of the three tokens Id, Equals, Str, then Eoi.
C2_ScenarioItemParses ==
    (Finished /\ parser = create_grammar_token_parser /\ tokens = Scenario1 /\ offset = 0) =>
        /\ pc = "done"
        /\ result.data =
              ResultOk(DataNested(
                << DataNested(<< DataNested(<< DataToken(Scenario1[1]),
                                               DataToken(Scenario1[2]),
                                               DataToken(Scenario1[3]) >>) >>),
                   DataToken(Scenario1[4]) >>))

\* The case of C3: a Sequence all of whose children were invoked and none
\* of them returned Err.
C3_Case ==
    /\ pc = "done"
    /\ parser.kind = "Sequence"
    /\ Len(calls) = Len(parser.inner)
    /\ \A i \in 1..Len(calls) : calls[i].data.kind \in {"Ok", "None"}

\* C3 as stated: such a Sequence returns Ok(Nested(d)), d the data of the
\* children that returned Ok, in order, and its size() is the sum of size()
\* over all of its children's Parses.
C3_SequenceSizeAllChildren ==
    C3_Case =>
        /\ result.data = ResultOk(DataNested(OkData(calls)))
        /\ Len(result.data.data.list) =
              Len(calls) - Cardinality({i \in 1..Len(calls) : calls[i].data.kind = "None"})
        /\ size(result) = SumSize(calls, {"Ok", "None"})

\* C3 amended: such a Sequence returns Ok(Nested(d)), d the data of the
\* children that returned Ok, in order, and its size() is the sum of size()
\* over the children that returned Ok (a None child leaves the cursor
\* where it was, whatever its own size()).
C3_SequenceSizeOkChildren ==
    C3_Case =>
        /\ result.data = ResultOk(DataNested(OkData(calls)))
        /\ Len(result.data.data.list) =
              Len(calls) - Cardinality({i \in 1..Len(calls) : calls[i].data.kind = "None"})
        /\ size(result) = SumSize(calls, {"Ok"})

C3_Witness ==
    /\ C3_Case
    /\ \E i \in 1..Len(calls) : calls[i].data.kind = "None" /\ size(calls[i]) > 0
    /\ \E i \in 1..Len(calls) : calls[i].data.kind = "Ok" /\ size(calls[i]) > 0
    /\ size(result) > 0

\* C4: a Repeatable whose child returned Ok k > 0 times and then Err returns
\* Ok(Nested) of exactly those k items, with size() the sum of the size()
\* of the k child Parses.
C4_RepeatableSizeIsSum ==
    (/\ Finished
     /\ parser.kind = "Repeatable"
     /\ Len(calls) > 1
     /\ \A i \in 1..(Len(calls) - 1) : calls[i].data.kind = "Ok"
     /\ calls[Len(calls)].data.kind = "Err") =>
        /\ pc = "done"
        /\ result.data = ResultOk(DataNested(OkData(calls)))
        /\ Len(result.data.data.list) = Len(calls) - 1
        /\ size(result) = SumSize(calls, {"Ok"})

\* C5: a Repeatable whose child's first application returned Err or None,
\* at any offset up to the length of the input, returns None with
\* end_offset = start_offset when optional, and returns Err when not.
C5_RepeatableNeverMatching ==
    (/\ Finished
     /\ parser.kind = "Repeatable"
     /\ calls # <<>>
     /\ calls[1].data.kind \in {"Err", "None"}) =>
        /\ pc = "done"
        /\ parser.optional =>
              (result.data = ResultNone /\ result.end_offset = result.start_offset)
        /\ ~parser.optional => result.data.kind = "Err"

\* C6: Choice invokes its alternatives in list order at the same offset and
\* returns, unchanged, the Parse of the first alternative that is Ok, the
\* alternatives before it having returned Err or None.
C6_ChoiceFirstOkVerbatim ==
    (pc = "done" /\ parser.kind = "Choice") =>
        \A i \in 1..Len(parser.inner) :
            (/\ Parser_parse(parser.inner[i], ctx, offset).data.kind = "Ok"
             /\ \A j \in 1..(i - 1) :
                    Parser_parse(parser.inner[j], ctx, offset).data.kind \in {"Err", "None"}) =>
                /\ calls = [j \in 1..i |-> Parser_parse(parser.inner[j], ctx, offset)]
                /\ result = Parser_parse(parser.inner[i], ctx, offset)

C6_Witness ==
    /\ pc = "done"
    /\ parser.kind = "Choice"
    /\ Kinds(calls) = <<"Err", "Ok">>
    /\ result = calls[2]
    /\ size(result) > 0
    /\ result.type_parsed # parser.pty

\* C7: Not never returns Ok; over a child that returned Ok it returns Err
\* at the span of the leftmost token of the child's data (None when
\* optional); over a child that returned Err or None it returns None.
C7_NotNeverOk ==
    (Finished /\ parser.kind = "Not" /\ Returned(calls[1])) =>
        /\ pc = "done"
        /\ result.data.kind # "Ok"
        /\ (calls[1].data.kind = "Ok" /\ parser.optional) => result.data = ResultNone
        /\ (calls[1].data.kind = "Ok" /\ ~parser.optional) =>
              /\ result.data.kind = "Err"
              /\ Flatten(calls[1].data.data) # <<>>
              /\ result.data.err.span = Head(Flatten(calls[1].data.data)).span
        /\ calls[1].data.kind \in {"Err", "None"} => result.data = ResultNone

\* C8: a returned Parse has start_offset = the input offset and
\* end_offset >= start_offset, and end_offset = start_offset when it is Err
\* or None and no child returned Ok.
C8_OffsetsContract ==
    pc = "done" =>
        /\ result.start_offset = offset
        /\ result.end_offset >= result.start_offset
        /\ (/\ result.data.kind \in {"Err", "None"}
            /\ \A i \in 1..Len(calls) : calls[i].data.kind # "Ok") =>
              result.end_offset = result.start_offset

\* C9: the illustrative grammar parses [Id, Equals, Eoi] from offset 0 to
\* Err, the error's span being the span of the Eoi token (index 2).
C9_ScenarioMissingValue ==
    (Finished /\ parser = create_grammar_token_parser /\ tokens = Scenario3 /\ offset = 0) =>
        /\ pc = "done"
        /\ result.data.kind = "Err"
        /\ result.data.err.span = Scenario3[3].span

C9_Witness ==
    /\ pc = "done"
    /\ parser = create_grammar_token_parser
    /\ tokens = Scenario3
    /\ offset = 0
    /\ result.data.kind = "Err"
    /\ Scenario3[3].ty = TokEoi

\* C10: parse terminates, because every iteration of a Repeatable loop in
\* which the child returns Ok advances the Repeatable's cursor.
C10_RepeatableAdvances ==
    [][(pc = "call" /\ parser.kind = "Repeatable" /\ st'.idx = st.idx + 1)
          => st'.offs > st.offs]_vars

====
